---- MODULE Spec2Model ----
(***************************************************************************)
(* A model of the apt-mirror charm: the package reconciliation             *)
(* (_check_packages, clean_packages), the synchronize action, and the      *)
(* snapshot / publish directory operations, over an abstract filesystem    *)
(* rooted at the configured base-path.                                     *)
(*                                                                         *)
(* Names are sequences of tokens ("snapshot-" is one token, "/" is one     *)
(* token), so that str.startswith and os.path.basename are computed and    *)
(* not assumed.  A path is a record that keeps the spelling of the         *)
(* base-path prefix: "given" is base-path as configured, "real" is what    *)
(* Path.resolve() returns when base-path goes through a symlink.           *)
(***************************************************************************)
EXTENDS Integers, Sequences, FiniteSets, TLC

\* ------------------------------------------------------------------ bounds
\* The clock shows the timestamps 1..MaxClock (one snapshot name each).
MaxClock == 2

\* clean_packages is run on sets of at most MaxPackages paths.
MaxPackages == 3

\* ---------------------------------------------------------------- universe
\* Live archive directories: mirror/<host>/ubuntu.
Hosts == {"h1"}

\* The same with a second archive, for the runs on two mirrors; pool and
\* dists are functions on the archive directories of the run.
TwoHosts == {"h1", "h2"}

\* Package files: <archive root>/pool/<p>.deb, named "pool/<p>.deb" by an index.
Pkgs == {"p1", "p2"}

\* Index files of one index directory, in sorted() order.
IndexFiles == <<"Packages", "Packages.gz">>

\* The source parameter of synchronize: None, the empty string, a regular
\* expression that matches the mirror line of a host, one that matches nothing.
NoSource == "<None>"

Sources == {NoSource, "", "zzz"} \cup TwoHosts

VARIABLES
    baseLinked,  \* base-path goes through a symbolic link (fixed for a run)
    config,      \* _stored.config: mirror-list (validated), strip-mirror-name
    mirrorDir,   \* <base>/mirror exists
    pool,        \* pool[h]: mirror/h/ubuntu/pool exists
    dists,       \* dists[h]: mirror/h/ubuntu/dists and its index files
    debs,        \* the .deb files on disk, <<h, p>> = mirror/h/ubuntu/pool/p.deb
    snapshots,   \* snapshot directories: name -> tree
    publish,     \* the <base>/publish symlink
    clock,       \* datetime.now(), to the second
    pc,          \* where a running publish-snapshot handler stands
    status,      \* the unit status set by _update_status
    out,         \* what the last action reported on its event
    cp,          \* one run of clean_packages (specification SpecClean)
    fn,          \* one call of a pure function: its arguments and its result
    stored,      \* _stored.config as _on_config_changed writes it, key by key
    cronJob      \* the file /etc/cron.d/<app-name>

vars == <<baseLinked, config, mirrorDir, pool, dists, debs, snapshots, publish, clock, pc, status, out, cp, fn, stored, cronJob>>

fsVars == <<mirrorDir, pool, dists, debs, snapshots, publish>>

\* ------------------------------------------------------------------- names
TS(t) == ToString(t)

\* charm.py _get_snapshot_name: "snapshot-" + timestamp.
SnapshotName(t) == <<"snapshot-", TS(t)>>

SnapshotNames == {SnapshotName(t) : t \in 1..MaxClock}

\* The names an operator may pass to delete-snapshot and publish-snapshot.
Names ==
    {<<>>, <<"mirror">>, <<"not-a-snapshot">>, <<"snapshot-", "9999">>}
        \cup SnapshotNames
        \cup {n \o <<"/">> : n \in SnapshotNames}

\* A prefix test that lets the empty name through.
StartsWithSnapshotOrEmpty(name) == Len(name) = 0 \/ name[1] = "snapshot-"

\* str.startswith("snapshot-")
StartsWithSnapshot(name) == Len(name) > 0 /\ name[1] = "snapshot-"

\* The directory entry a name denotes below base-path: a trailing "/" is
\* dropped by path resolution.
StripSlash(name) ==
    IF Len(name) > 0 /\ name[Len(name)] = "/" THEN SubSeq(name, 1, Len(name) - 1) ELSE name

RECURSIVE LastSlash(_, _)
LastSlash(name, i) ==
    IF i = 0 THEN 0 ELSE IF name[i] = "/" THEN i ELSE LastSlash(name, i - 1)

\* os.path.basename of "<base>/" + name: what follows the last "/".
Basename(name) == SubSeq(name, LastSlash(name, Len(name)) + 1, Len(name))

\* ------------------------------------------------------------- index files
NoIndex == <<>>

\* An index directory: a function from the index files present to the set of
\* Filename entries each holds.  The mirroring tool downloads Packages.gz and
\* may leave an uncompressed Packages beside it; each names one package.
IndexDirs ==
    {f \in UNION {[fs -> {{p} : p \in Pkgs}] : fs \in SUBSET {"Packages", "Packages.gz"}} :
        "Packages.gz" \in DOMAIN f}

NoDists == [exists |-> FALSE, index |-> NoIndex]

\* The content of an index file that cannot be opened or decoded: a file
\* without read permission, a truncated or corrupt archive, a directory.
Undecodable == "<undecodable>"

Rank(file) == CHOOSE i \in 1..Len(IndexFiles) : IndexFiles[i] = file

\* Every Packages* file of the directory, none filtered out.
GetPackageIndicesAll(index) == DOMAIN index

\* utils.py _get_package_indices: of the Packages* files of one directory,
\* the first in sorted order.
GetPackageIndices(index) ==
    {f \in DOMAIN index : \A g \in DOMAIN index : Rank(f) <= Rank(g)}

\* utils.py find_packages_by_indices / _locate_packages_from_index: the
\* Filename entries of the given index files joined onto the archive root.
FindPackagesByIndices(index, files, root) ==
    {[root |-> root, file |-> p] : p \in UNION {index[f] : f \in files}}

\* ------------------------------------------------------------------- paths
\* The directory mirror/<h>/ubuntu, spelled with base-path as configured.
LiveRoot(h) == [sp |-> "given", tree |-> <<"mirror">>, dir |-> <<h, "ubuntu">>]

\* The directory <snapshot>/<subtree>, spelled with base-path as configured.
SnapRoot(name, subtree) == [sp |-> "given", tree |-> name, dir |-> subtree]

\* Path.resolve(): every symbolic link of the path is followed, base-path's too.
Resolve(root) == [root EXCEPT !.sp = IF baseLinked THEN "real" ELSE "given"]

\* The path of a .deb file as Path(mirror_path).rglob("**/*.deb") returns it;
\* Path.absolute() leaves an absolute path as it is spelled.
LivePath(h, p) == [root |-> LiveRoot(h), file |-> p]

\* A pool entry: a symlink to the live pool of a host, or not a symlink.
NoPool == [link |-> FALSE, target |-> ""]

PoolLink(h) == [link |-> TRUE, target |-> h]

\* utils.py _get_archive_root: a symlinked pool is resolved and its parent
\* taken; otherwise the parent of the pool path as spelled.
GetArchiveRoot(poolEntry, parent) ==
    IF poolEntry.link THEN Resolve(LiveRoot(poolEntry.target)) ELSE parent

\* ------------------------------------------------------------ the calculator
\* utils.py locate_package_indices + find_packages_by_indices on the live
\* mirror: one (archive root, indices) pair per dists directory.
LiveIndexed(ds) ==
    UNION {FindPackagesByIndices(ds[h].index, GetPackageIndices(ds[h].index),
                                 GetArchiveRoot(NoPool, LiveRoot(h)))
               : h \in {x \in DOMAIN ds : ds[x].exists}}

\* The same on one snapshot directory: the copied dists with the pool entry
\* beside each.
SnapshotIndexed(name, tree) ==
    UNION {FindPackagesByIndices(tree[d].dists.index, GetPackageIndices(tree[d].dists.index),
                                 GetArchiveRoot(tree[d].pool, SnapRoot(name, d)))
               : d \in {x \in DOMAIN tree : tree[x].dists.exists}}

\* charm.py _check_packages, lines 150-155: the union over every snapshot
\* and the live mirror.
IndexedPackages(ds, snaps) ==
    LiveIndexed(ds) \cup UNION {SnapshotIndexed(s, snaps[s]) : s \in DOMAIN snaps}

\* charm.py _check_packages, line 160.
ExistingPackages(dbs) == {LivePath(d[1], d[2]) : d \in dbs}

\* charm.py _check_packages, line 163: the deletion candidates.
CheckPackages(ds, dbs, snaps) == ExistingPackages(dbs) \ IndexedPackages(ds, snaps)

\* An index file that is read without a look at its content.
UnreadableSkipped(index) == FALSE

\* utils.py _locate_packages_from_index, lines 115-119: opening or reading a
\* selected index file raises when the file cannot be opened or decoded.
Unreadable(index) == \E f \in GetPackageIndices(index) : Undecodable \in index[f]

\* charm.py _check_packages, lines 153-155: the error that ends the loop over
\* the snapshots and then the live mirror, "" for none.
CalculatorError(mdir, ds, snaps) ==
    IF \E n \in DOMAIN snaps : \E d \in DOMAIN snaps[n] :
           snaps[n][d].dists.exists /\ Unreadable(snaps[n][d].dists.index)
    THEN "unreadable index"
    ELSE IF ~mdir THEN "FileNotFoundError"
    ELSE IF \E h \in DOMAIN ds : ds[h].exists /\ Unreadable(ds[h].index)
    THEN "unreadable index"
    ELSE ""

\* A clean_packages that logs the packages and unlinks none.
CleanPackagesDryRun(packages, dbs) ==
    [debs |-> dbs, result |-> packages \subseteq ExistingPackages(dbs)]

\* utils.py clean_packages on regular files: every package of the set that is
\* on disk is unlinked; the result is False when one was missing.
CleanPackages(packages, dbs) ==
    [debs |-> {d \in dbs : LivePath(d[1], d[2]) \notin packages},
     result |-> packages \subseteq ExistingPackages(dbs)]

\* --------------------------------------------------------------- the status
Idle == [at |-> "idle", name |-> <<>>]

NoLink == [linked |-> FALSE, target |-> <<>>]

\* charm.py _get_published_snapshot: the basename of the link text, or None.
GetPublishedSnapshot(pub) ==
    IF pub.linked THEN [none |-> FALSE, name |-> Basename(pub.target)]
    ELSE [none |-> TRUE, name |-> <<>>]

\* Python truth of the value above: neither None nor the empty string.
Truthy(published) == ~published.none /\ published.name # <<>>

\* charm.py _update_status
UpdateStatus(pub, mdir) ==
    IF Truthy(GetPublishedSnapshot(pub))
    THEN [text |-> "Publishes", name |-> GetPublishedSnapshot(pub).name]
    ELSE IF mdir THEN [text |-> "Last sync: not published", name |-> <<>>]
    ELSE [text |-> "Packages not synchronized", name |-> <<>>]

Report(op, st, msg) == [op |-> op, status |-> st, msg |-> msg]

\* ----------------------------------------------------------------- the state
NoRun == [at |-> "off", todo |-> {}, kind |-> <<>>, attempts |-> <<>>, result |-> TRUE]

\* No pure function is being called.
NoCall == [op |-> "none", at |-> "off"]

\* charm.py line 56: _stored.set_default(config={}).
NoConfig == <<>>

\* No cron job file.
NoFile == [exists |-> FALSE, schedule |-> ""]

\* The main specification's initial values of every variable but cp.
InitRest ==
    /\ baseLinked \in BOOLEAN
    /\ config \in [mirrors : SUBSET Hosts, strip : BOOLEAN]
    /\ mirrorDir = FALSE
    /\ pool = [h \in Hosts |-> FALSE]
    /\ dists = [h \in Hosts |-> NoDists]
    /\ debs = {}
    /\ snapshots = <<>>
    /\ publish = NoLink
    /\ clock = 1
    /\ pc = Idle
    /\ status = [text |-> "unset", name |-> <<>>]
    /\ out = Report("none", "none", "")

Init ==
    /\ InitRest
    /\ cp = NoRun
    /\ fn = NoCall
    /\ stored = NoConfig
    /\ cronJob = NoFile

\* datetime.now() moves on.
Tick ==
    /\ pc = Idle
    /\ clock < MaxClock
    /\ clock' = clock + 1
    /\ UNCHANGED <<baseLinked, config, fsVars, pc, status, out, cp, fn, stored, cronJob>>

\* ------------------------------------------------------------- synchronize
\* charm.py _get_mirrors: the configured mirrors, filtered when source is
\* neither None nor empty.
GetMirrors(source) ==
    IF source = NoSource \/ source = "" THEN config.mirrors
    ELSE {h \in config.mirrors : source = h}

\* A clean_dists that removes nothing.
CleanDistsNothing(ds) == ds

\* utils.py clean_dists: every dists directory below mirror/ is removed.
CleanDists(ds) == [h \in DOMAIN ds |-> NoDists]

\* clean_dists searching base-path itself: the dists of every snapshot go too.
CleanDistsBelowBase(snaps) ==
    [n \in DOMAIN snaps |->
        [d \in DOMAIN snaps[n] |-> [snaps[n][d] EXCEPT !.dists = NoDists]]]

\* utils.py clean_dists, lines 16-17, seen from the snapshot directories: the
\* search starts at <base>/mirror, so only a directory of that name loses
\* its dists.
CleanDistsSnapshots(snaps) ==
    [n \in DOMAIN snaps |->
        IF n = <<"mirror">>
        THEN [d \in DOMAIN snaps[n] |-> [snaps[n][d] EXCEPT !.dists = NoDists]]
        ELSE snaps[n]]

\* What the mirroring tool leaves for the mirrors it was given: the index
\* files it wrote and every package one of them names.
ToolDists(ds, mirrors, written) ==
    [h \in DOMAIN ds |-> IF h \in mirrors THEN [exists |-> TRUE, index |-> written[h]] ELSE ds[h]]

ToolDebs(dbs, mirrors, written) ==
    dbs \cup {d \in mirrors \X Pkgs :
                 d[1] \in mirrors /\ \E f \in DOMAIN written[d[1]] : d[2] \in written[d[1]][f]}

\* charm.py _on_synchronize_action
Synchronize(source) ==
    /\ pc = Idle
    /\ LET mirrors == GetMirrors(source)
           cleaned == IF source = NoSource THEN CleanDists(dists) ELSE dists
           snaps == IF source = NoSource THEN CleanDistsSnapshots(snapshots) ELSE snapshots
       IN  IF mirrors = {}
           THEN /\ out' = Report("synchronize", "failed", "No mirror matches the filter")
                /\ UNCHANGED <<fsVars, status>>
           ELSE \E tool \in {"ok", "CalledProcessError", "Exception"} :
                  IF tool # "ok"
                  THEN /\ dists' = cleaned
                       /\ snapshots' = snaps
                       /\ out' = Report("synchronize", "failed", tool)
                       /\ UNCHANGED <<mirrorDir, pool, debs, publish, status>>
                  ELSE \E written \in [mirrors -> IndexDirs] :
                         LET ds == ToolDists(cleaned, mirrors, written)
                             dbs == ToolDebs(debs, mirrors, written)
                             packages_to_be_removed == CheckPackages(ds, dbs, snaps)
                             error == CalculatorError(TRUE, ds, snaps)
                         IN  /\ mirrorDir' = TRUE
                             /\ pool' = [h \in DOMAIN pool |-> pool[h] \/ h \in mirrors]
                             /\ dists' = ds
                             /\ snapshots' = snaps
                             /\ IF error # ""
                                THEN /\ debs' = dbs
                                     /\ out' = Report("synchronize", "raised", error)
                                     /\ UNCHANGED status
                                ELSE /\ debs' = CleanPackages(packages_to_be_removed, dbs).debs
                                     /\ out' = Report("synchronize", "results",
                                                      ToString(Cardinality(packages_to_be_removed)))
                                     /\ status' = UpdateStatus(publish, TRUE)
                             /\ UNCHANGED publish
    /\ UNCHANGED <<baseLinked, config, clock, pc, cp, fn, stored, cronJob>>

\* ---------------------------------------------------------- check / clean up
\* charm.py _on_check_packages_action: locate_package_indices raises
\* FileNotFoundError when the mirror path does not exist.
CheckPackagesAction ==
    /\ pc = Idle
    /\ LET error == CalculatorError(mirrorDir, dists, snapshots)
       IN  out' = IF error = ""
                  THEN Report("check-packages", "results",
                              ToString(Cardinality(CheckPackages(dists, debs, snapshots))))
                  ELSE Report("check-packages", "raised", error)
    /\ UNCHANGED <<baseLinked, config, fsVars, clock, pc, status, cp, fn, stored, cronJob>>

\* charm.py lines 199-210: the message of a confirmed clean-up-packages, with
\* the number of packages handed to clean_packages.
CleanUpMessage(result, packages) ==
    (IF result THEN "Clean up completed without errors."
     ELSE "Clean up completed with errors")
        \o " cleaning " \o ToString(Cardinality(packages)) \o " packages"

\* The handler with a clean_packages that returns after the first package
\* it unlinked.
CleanUpPackagesFirstOnly(confirm) ==
    /\ pc = Idle
    /\ confirm
    /\ CalculatorError(mirrorDir, dists, snapshots) = ""
    /\ LET packages_to_be_removed == CheckPackages(dists, debs, snapshots)
           existing == {d \in debs : LivePath(d[1], d[2]) \in packages_to_be_removed}
           first == IF existing = {} THEN {} ELSE {CHOOSE d \in existing : TRUE}
       IN  /\ debs' = debs \ first
           /\ out' = Report("clean-up-packages", "results",
                            CleanUpMessage(TRUE, packages_to_be_removed))
    /\ UNCHANGED <<baseLinked, config, mirrorDir, pool, dists, snapshots, publish, clock, pc, status, cp, fn, stored, cronJob>>

\* A handler that does not look at its confirm parameter.
ConfirmedAlways(confirm) == TRUE

\* charm.py line 184: the test of event.params["confirm"].
Confirmed(confirm) == confirm

\* charm.py _on_clean_up_packages_action
CleanUpPackages(confirm) ==
    /\ pc = Idle
    /\ IF ~Confirmed(confirm)
       THEN /\ out' = Report("clean-up-packages", "results", "Aborted!")
            /\ UNCHANGED debs
       ELSE IF CalculatorError(mirrorDir, dists, snapshots) # ""
       THEN /\ out' = Report("clean-up-packages", "raised",
                             CalculatorError(mirrorDir, dists, snapshots))
            /\ UNCHANGED debs
       ELSE LET packages_to_be_removed == CheckPackages(dists, debs, snapshots)
                cleanup == CleanPackages(packages_to_be_removed, debs)
            IN  /\ debs' = cleanup.debs
                /\ out' = Report("clean-up-packages", "results",
                                 CleanUpMessage(cleanup.result, packages_to_be_removed))
    /\ UNCHANGED <<baseLinked, config, mirrorDir, pool, dists, snapshots, publish, clock, pc, status, cp, fn, stored, cronJob>>

\* ---------------------------------------------------------- create-snapshot
\* charm.py _build_subtree: the live directory relative to mirror/, without
\* its host segment when strip-mirror-name is set and the host is a mirror.
BuildSubtree(mirrors, h) ==
    IF config.strip /\ h \in mirrors THEN <<"ubuntu">> ELSE <<h, "ubuntu">>

NoEntry == [pool |-> NoPool, dists |-> NoDists]

EntryAt(tree, d) == IF d \in DOMAIN tree THEN tree[d] ELSE NoEntry

Put(tree, d, e) == (d :> e) @@ tree

\* charm.py lines 287-295: os.symlink raises FileExistsError when the
\* destination pool is already there.
LinkPool(acc, h) ==
    IF acc.raised \/ ~pool[h] THEN acc
    ELSE LET d == BuildSubtree(config.mirrors, h)
             e == EntryAt(acc.tree, d)
         IN  IF e.pool.link THEN [acc EXCEPT !.raised = TRUE]
             ELSE [acc EXCEPT !.tree = Put(acc.tree, d, [e EXCEPT !.pool = PoolLink(h)])]

\* The dists branch written as an elif of the pool branch.
CopyDistsUnlessPool(acc, h) ==
    IF acc.raised \/ ~dists[h].exists \/ pool[h] THEN acc
    ELSE LET d == BuildSubtree(config.mirrors, h)
             e == EntryAt(acc.tree, d)
         IN  IF e.dists.exists THEN [acc EXCEPT !.raised = TRUE]
             ELSE [acc EXCEPT !.tree = Put(acc.tree, d, [e EXCEPT !.dists = dists[h]])]

\* charm.py lines 296-304: shutil.copytree raises FileExistsError when the
\* destination dists is already there.
CopyDists(acc, h) ==
    IF acc.raised \/ ~dists[h].exists THEN acc
    ELSE LET d == BuildSubtree(config.mirrors, h)
             e == EntryAt(acc.tree, d)
         IN  IF e.dists.exists THEN [acc EXCEPT !.raised = TRUE]
             ELSE [acc EXCEPT !.tree = Put(acc.tree, d, [e EXCEPT !.dists = dists[h]])]

\* charm.py line 286: os.walk visits the live directories in some order.
RECURSIVE Walk(_, _)
Walk(order, acc) ==
    IF order = <<>> THEN acc
    ELSE Walk(Tail(order), CopyDists(LinkPool(acc, Head(order)), Head(order)))

WalkOrders ==
    {o \in [1..Cardinality(DOMAIN pool) -> DOMAIN pool] :
        \A i, j \in DOMAIN o : o[i] = o[j] => i = j}

\* charm.py _on_create_snapshot_action
CreateSnapshot ==
    /\ pc = Idle
    /\ LET name == SnapshotName(clock)
           start == IF name \in DOMAIN snapshots THEN snapshots[name] ELSE <<>>
       IN  \E order \in WalkOrders :
             LET done == Walk(order, [tree |-> start, raised |-> FALSE])
             IN  /\ snapshots' = (name :> done.tree) @@ snapshots
                 /\ IF done.raised
                    THEN /\ out' = Report("create-snapshot", "raised", "FileExistsError")
                         /\ UNCHANGED status
                    ELSE /\ out' = Report("create-snapshot", "results", "")
                         /\ status' = UpdateStatus(publish, mirrorDir)
    /\ UNCHANGED <<baseLinked, config, mirrorDir, pool, dists, debs, publish, clock, pc, cp, fn, stored, cronJob>>

\* ---------------------------------------------------------- delete-snapshot
Without(snaps, name) == [n \in DOMAIN snaps \ {name} |-> snaps[n]]

\* charm.py _on_delete_snapshot_action: shutil.rmtree raises
\* FileNotFoundError when the directory is not there.
DeleteSnapshot(name) ==
    /\ pc = Idle
    /\ IF ~StartsWithSnapshot(name)
       THEN /\ out' = Report("delete-snapshot", "failed", "Invalid snapshot name")
            /\ UNCHANGED <<snapshots, status>>
       ELSE IF StripSlash(name) \notin DOMAIN snapshots
       THEN /\ out' = Report("delete-snapshot", "raised", "FileNotFoundError")
            /\ UNCHANGED <<snapshots, status>>
       ELSE /\ snapshots' = Without(snapshots, StripSlash(name))
            /\ out' = Report("delete-snapshot", "results", "")
            /\ status' = UpdateStatus(publish, mirrorDir)
    /\ UNCHANGED <<baseLinked, config, mirrorDir, pool, dists, debs, publish, clock, pc, cp, fn, stored, cronJob>>

\* --------------------------------------------------------- publish-snapshot
\* A test of base-path instead of the snapshot path.
IsDirOfBase(name) == TRUE

\* os.path.isdir("<base>/" + name)
IsDir(name) ==
    \/ StripSlash(name) = <<>>
    \/ StripSlash(name) = <<"mirror">> /\ mirrorDir
    \/ StripSlash(name) \in DOMAIN snapshots

\* charm.py _on_publish_snapshot_action, lines 325-333: the check and the
\* unlink of an existing link.
PublishStart(name) ==
    /\ pc = Idle
    /\ IF ~IsDir(name)
       THEN /\ out' = Report("publish-snapshot", "failed", "Snapshot does not exist")
            /\ UNCHANGED <<publish, pc>>
       ELSE /\ publish' = NoLink
            /\ pc' = [at |-> "link", name |-> name]
            /\ UNCHANGED out
    /\ UNCHANGED <<baseLinked, config, mirrorDir, pool, dists, debs, snapshots, clock, status, cp, fn, stored, cronJob>>

\* charm.py lines 334-336: the new link, the results, the status.
PublishLink ==
    /\ pc.at = "link"
    /\ publish' = [linked |-> TRUE, target |-> pc.name]
    /\ out' = Report("publish-snapshot", "results", "")
    /\ status' = UpdateStatus(publish', mirrorDir)
    /\ pc' = Idle
    /\ UNCHANGED <<baseLinked, config, mirrorDir, pool, dists, debs, snapshots, clock, cp, fn, stored, cronJob>>

\* The handler's process ends between the unlink and the symlink.
PublishInterrupted ==
    /\ pc.at = "link"
    /\ pc' = Idle
    /\ out' = Report("publish-snapshot", "raised", "interrupted")
    /\ UNCHANGED <<baseLinked, config, fsVars, clock, status, cp, fn, stored, cronJob>>

\* ----------------------------------------------------------- specifications
Next ==
    \/ Tick
    \/ \E source \in Sources : Synchronize(source)
    \/ CheckPackagesAction
    \/ \E confirm \in BOOLEAN : CleanUpPackages(confirm)
    \/ CreateSnapshot
    \/ \E name \in Names : DeleteSnapshot(name)

Spec == Init /\ [][Next]_vars

\* The snapshot and publish operations on a mirror that is left alone: never
\* synchronized, or holding archive directories with a pool, a dists, or both.
InitPublish ==
    /\ baseLinked = FALSE
    /\ config \in [mirrors : SUBSET Hosts, strip : BOOLEAN]
    /\ mirrorDir \in BOOLEAN
    /\ pool \in [Hosts -> BOOLEAN]
    /\ dists \in [Hosts -> {NoDists, [exists |-> TRUE, index |-> [f \in {"Packages.gz"} |-> {"p1"}]]}]
    /\ ~mirrorDir => \A h \in Hosts : ~pool[h] /\ ~dists[h].exists
    /\ debs = {d \in Hosts \X {"p1"} : pool[d[1]]}
    /\ snapshots = <<>>
    /\ publish = NoLink
    /\ clock = 1
    /\ pc = Idle
    /\ status = [text |-> "unset", name |-> <<>>]
    /\ out = Report("none", "none", "")
    /\ cp = NoRun
    /\ fn = NoCall
    /\ stored = NoConfig
    /\ cronJob = NoFile

NextPublish ==
    \/ Tick
    \/ CreateSnapshot
    \/ \E name \in Names : DeleteSnapshot(name)
    \/ \E name \in Names : PublishStart(name)
    \/ PublishLink
    \/ PublishInterrupted

SpecPublish == InitPublish /\ [][NextPublish]_vars

\* The calculator on index files that may be unreadable: a live mirror and at
\* most one snapshot, each index file holding one entry or being undecodable.
AnyIndexDirs ==
    {f \in UNION {[fs -> {{p} : p \in Pkgs \cup {Undecodable}}]
                      : fs \in SUBSET {"Packages", "Packages.gz"}} : DOMAIN f # {}}

InitCalc ==
    /\ baseLinked = FALSE
    /\ config = [mirrors |-> Hosts, strip |-> FALSE]
    /\ mirrorDir = TRUE
    /\ pool = [h \in Hosts |-> TRUE]
    /\ dists \in [Hosts -> {[exists |-> TRUE, index |-> i] : i \in AnyIndexDirs}]
    /\ debs \in SUBSET (Hosts \X Pkgs)
    /\ \E h \in Hosts :
         snapshots \in {<<>>} \cup
             {SnapshotName(1) :> (<<h, "ubuntu">> :> [pool |-> PoolLink(h),
                                                     dists |-> [exists |-> TRUE, index |-> i]])
                  : i \in AnyIndexDirs}
    /\ publish = NoLink
    /\ clock = 1
    /\ pc = Idle
    /\ status = [text |-> "unset", name |-> <<>>]
    /\ out = Report("none", "none", "")
    /\ cp = NoRun
    /\ fn = NoCall
    /\ stored = NoConfig
    /\ cronJob = NoFile

NextCalc ==
    \/ \E source \in Sources : Synchronize(source)
    \/ CheckPackagesAction
    \/ \E confirm \in BOOLEAN : CleanUpPackages(confirm)

SpecCalc == InitCalc /\ [][NextCalc]_vars

\* Synchronize on two configured archives that hold the index of an earlier
\* run: a lone uncompressed Packages file, which the mirroring tool, writing
\* Packages.gz, never leaves.
Stale == [exists |-> TRUE, index |-> [f \in {"Packages"} |-> {"p1"}]]

InitSync ==
    /\ baseLinked = FALSE
    /\ config \in [mirrors : SUBSET TwoHosts, strip : {FALSE}]
    /\ mirrorDir = TRUE
    /\ pool = [h \in TwoHosts |-> TRUE]
    /\ dists = [h \in TwoHosts |-> Stale]
    /\ debs = TwoHosts \X {"p1"}
    /\ snapshots = <<>>
    /\ publish = NoLink
    /\ clock = 1
    /\ pc = Idle
    /\ status = [text |-> "unset", name |-> <<>>]
    /\ out = Report("none", "none", "")
    /\ cp = NoRun
    /\ fn = NoCall
    /\ stored = NoConfig
    /\ cronJob = NoFile

NextSync ==
    \/ \E source \in Sources : Synchronize(source)
    \/ CheckPackagesAction

SpecSync == InitSync /\ [][NextSync]_vars

\* create-snapshot on a live mirror of two archives, each with a pool, a
\* dists, both or neither.
InitSnap ==
    /\ baseLinked = FALSE
    /\ config \in [mirrors : SUBSET TwoHosts, strip : BOOLEAN]
    /\ mirrorDir = TRUE
    /\ pool \in [TwoHosts -> BOOLEAN]
    /\ dists \in [TwoHosts -> {NoDists, Stale}]
    /\ debs = {d \in TwoHosts \X {"p1"} : pool[d[1]]}
    /\ snapshots = <<>>
    /\ publish = NoLink
    /\ clock = 1
    /\ pc = Idle
    /\ status = [text |-> "unset", name |-> <<>>]
    /\ out = Report("none", "none", "")
    /\ cp = NoRun
    /\ fn = NoCall
    /\ stored = NoConfig
    /\ cronJob = NoFile

NextSnap ==
    \/ Tick
    \/ CreateSnapshot
    \/ \E name \in Names : DeleteSnapshot(name)

SpecSnap == InitSnap /\ [][NextSnap]_vars

\* ----------------------------------------------------------- clean_packages
\* The paths handed to clean_packages, and what each is when the run starts:
\* a regular file, missing, or an entry unlink() refuses with another error
\* than FileNotFoundError (a directory, a file it may not remove).
CleanPaths == 1..MaxPackages

Kinds == {"file", "missing", "blocked"}

\* Path.unlink(missing_ok=True): a missing file is no error.
UnlinkMissingOk(kind) == IF kind = "blocked" THEN "OSError" ELSE ""

\* Path.unlink(): the error it raises, "" for none.
Unlink(kind) ==
    CASE kind = "file" -> ""
      [] kind = "missing" -> "FileNotFoundError"
      [] OTHER -> "OSError"

\* An except clause that catches nothing.
CaughtNothing(error) == FALSE

\* utils.py line 30: the except clause.
Caught(error) == error = "FileNotFoundError"

InitClean ==
    /\ baseLinked = FALSE
    /\ config = [mirrors |-> {}, strip |-> FALSE]
    /\ mirrorDir = FALSE
    /\ pool = [h \in Hosts |-> FALSE]
    /\ dists = [h \in Hosts |-> NoDists]
    /\ debs = {}
    /\ snapshots = <<>>
    /\ publish = NoLink
    /\ clock = 1
    /\ pc = Idle
    /\ status = [text |-> "unset", name |-> <<>>]
    /\ out = Report("none", "none", "")
    /\ \E packages \in SUBSET CleanPaths : \E kind \in [packages -> Kinds] :
         cp = [at |-> "loop", todo |-> packages, kind |-> kind,
               attempts |-> [p \in packages |-> 0], result |-> TRUE]
    /\ fn = NoCall
    /\ stored = NoConfig
    /\ cronJob = NoFile

\* utils.py lines 26-33: one pass of the loop, on any package still to visit
\* (a set is iterated in no particular order).
CleanStep(package) ==
    /\ cp.at = "loop"
    /\ package \in cp.todo
    /\ LET error == Unlink(cp.kind[package])
       IN  cp' = [cp EXCEPT !.todo = @ \ {package},
                            !.attempts[package] = @ + 1,
                            !.result = IF Caught(error) THEN FALSE ELSE @,
                            !.at = IF error = "" \/ Caught(error) THEN "loop" ELSE "raised"]
    /\ UNCHANGED <<baseLinked, config, fsVars, clock, pc, status, out, fn, stored, cronJob>>

\* utils.py line 35
CleanReturn ==
    /\ cp.at = "loop"
    /\ cp.todo = {}
    /\ cp' = [cp EXCEPT !.at = "returned"]
    /\ UNCHANGED <<baseLinked, config, fsVars, clock, pc, status, out, fn, stored, cronJob>>

NextClean ==
    \/ \E package \in CleanPaths : CleanStep(package)
    \/ CleanReturn

SpecClean == InitClean /\ [][NextClean]_vars

\* ----------------------------------------------------------- pure functions
\* Every variable of the program at rest, for the calls of pure functions.
Quiet ==
    /\ baseLinked = FALSE
    /\ config = [mirrors |-> {}, strip |-> FALSE]
    /\ mirrorDir = FALSE
    /\ pool = [h \in Hosts |-> FALSE]
    /\ dists = [h \in Hosts |-> NoDists]
    /\ debs = {}
    /\ snapshots = <<>>
    /\ publish = NoLink
    /\ clock = 1
    /\ pc = Idle
    /\ status = [text |-> "unset", name |-> <<>>]
    /\ out = Report("none", "none", "")
    /\ cp = NoRun
    /\ stored = NoConfig
    /\ cronJob = NoFile

\* ----------------------------------------------------------- _build_subtree
\* A path text is a sequence of tokens; "/" is the separator.  The hostnames
\* "h1", "h1x" and "h2": the second has the first as a string prefix.
HostTexts == {<<"h1">>, <<"h1", "x">>, <<"h2">>}

\* The sub-paths below a host directory.
SubPaths == {<<"ubuntu">>, <<"ubuntu", "/", "ubuntu">>}

\* Values of the strip-mirror-path option.
StripPaths == {<<>>, <<"ubuntu">>, <<"/", "ubuntu">>, <<"h1", "/">>}

\* A configuration option: absent from the configuration, or set to a value.
Unset == [set |-> FALSE, value |-> <<>>]

UnsetFlag == [set |-> FALSE, value |-> FALSE]

Option(value) == [set |-> TRUE, value |-> value]

\* The mirror list holds at most MaxMirrors mirrors.
MaxMirrors == 2

\* charm.py _mirror_names: the hostnames of the mirror list, in its order.
MirrorLists ==
    {m \in UNION {[1..n -> HostTexts] : n \in 0..MaxMirrors} :
        \A i, j \in DOMAIN m : m[i] = m[j] => i = j}

\* re.findall(r"^<prefix>", text), str.startswith: text begins with prefix.
StartsWith(text, prefix) ==
    Len(prefix) <= Len(text) /\ SubSeq(text, 1, Len(prefix)) = prefix

\* The segments of a path text, as os.path splits a normalised path: empty
\* segments and "." are dropped.
RECURSIVE SplitFrom(_, _, _)
SplitFrom(text, cur, segs) ==
    LET closed == IF cur = <<>> \/ cur = <<".">> THEN segs ELSE Append(segs, cur)
    IN  IF text = <<>> THEN closed
        ELSE IF Head(text) = "/" THEN SplitFrom(Tail(text), <<>>, closed)
        ELSE SplitFrom(Tail(text), Append(cur, Head(text)), segs)

Segments(text) == SplitFrom(text, <<>>, <<>>)

RECURSIVE Join(_)
Join(segs) ==
    IF segs = <<>> THEN <<>>
    ELSE IF Len(segs) = 1 THEN segs[1]
    ELSE segs[1] \o <<"/">> \o Join(Tail(segs))

RECURSIVE CommonLen(_, _)
CommonLen(a, b) ==
    IF a = <<>> \/ b = <<>> THEN 0
    ELSE IF Head(a) # Head(b) THEN 0
    ELSE 1 + CommonLen(Tail(a), Tail(b))

\* os.path.relpath(path, start) for two paths relative to the same directory:
\* one ".." for each segment of start beyond the common segments, then the
\* rest of path; "." when nothing is left.
RelPath(path, start) ==
    LET ps == Segments(path)
        ss == Segments(start)
        i == CommonLen(ps, ss)
        rel == [k \in 1..(Len(ss) - i) |-> <<"..">>] \o SubSeq(ps, i + 1, Len(ps))
    IN  IF rel = <<>> THEN <<".">> ELSE Join(rel)

\* charm.py lines 391-393: for each mirror in turn, a subtree that begins
\* with the mirror's name is made relative to it.
RECURSIVE StripMirrorName(_, _)
StripMirrorName(mirrors, subtree) ==
    IF mirrors = <<>> THEN subtree
    ELSE StripMirrorName(
             Tail(mirrors),
             IF StartsWith(subtree, Head(mirrors))
             THEN RelPath(subtree, Head(mirrors)) ELSE subtree)

\* str.replace(old, "", 1): only the first occurrence is removed.
ReplaceFirst(text, old) ==
    IF \E i \in 1..Len(text) : StartsWith(SubSeq(text, i, Len(text)), old)
    THEN LET i == CHOOSE k \in 1..Len(text) :
                      /\ StartsWith(SubSeq(text, k, Len(text)), old)
                      /\ \A j \in 1..(k - 1) : ~StartsWith(SubSeq(text, j, Len(text)), old)
         IN  SubSeq(text, 1, i - 1) \o SubSeq(text, i + Len(old), Len(text))
    ELSE text

\* str.replace(old, "") for a non-empty old: the text is scanned from the
\* left and each occurrence met is left out.
RECURSIVE Replace(_, _)
Replace(text, old) ==
    IF text = <<>> THEN <<>>
    ELSE IF StartsWith(text, old) THEN Replace(SubSeq(text, Len(old) + 1, Len(text)), old)
    ELSE <<Head(text)>> \o Replace(Tail(text), old)

\* Python truth of a boolean option: present and True.
Enabled(option) == option.set /\ option.value

\* Python truth of a string option: present and not empty.
NonEmpty(option) == option.set /\ option.value # <<>>

\* charm.py _build_subtree on path texts: root is the live directory below
\* mirror/, stripName and stripPath are the two options.
BuildSubtreeText(mirrors, root, stripName, stripPath) ==
    LET subtree == RelPath(<<"mirror", "/">> \o root, <<"mirror">>)
        named == IF Enabled(stripName) THEN StripMirrorName(mirrors, subtree) ELSE subtree
    IN  IF NonEmpty(stripPath) THEN Replace(named, stripPath.value) ELSE named

InitSubtree ==
    /\ Quiet
    /\ \E mirrors \in MirrorLists, host \in HostTexts, sub \in SubPaths :
         \E stripName \in {UnsetFlag, Option(FALSE), Option(TRUE)} :
           \E stripPath \in {Unset} \cup {Option(v) : v \in StripPaths} :
             fn = [op |-> "_build_subtree", at |-> "call",
                   mirrors |-> mirrors, host |-> host, sub |-> sub,
                   stripName |-> stripName, stripPath |-> stripPath, result |-> <<>>]

BuildSubtreeCall ==
    /\ fn.op = "_build_subtree" /\ fn.at = "call"
    /\ fn' = [fn EXCEPT !.at = "returned",
                        !.result = BuildSubtreeText(fn.mirrors, fn.host \o <<"/">> \o fn.sub,
                                                    fn.stripName, fn.stripPath)]
    /\ UNCHANGED <<baseLinked, config, fsVars, clock, pc, status, out, cp, stored, cronJob>>

NextSubtree == BuildSubtreeCall

SpecSubtree == InitSubtree /\ [][NextSubtree]_vars

\* ------------------------------------------------------ _get_package_indices
\* The names of a dists tree in str order: upper case sorts before lower case.
SegmentOrder == <<"Packages", "Packages.gz", "Packages.xz", "main", "universe">>

SegRank(seg) == CHOOSE i \in 1..Len(SegmentOrder) : SegmentOrder[i] = seg

\* The directories of a dists tree, relative to dists, and the index files a
\* directory may hold.  A path is the directory with the file name appended.
IndexDirPaths == {<<>>, <<"main">>, <<"main", "universe">>, <<"universe">>}

IndexNames == {"Packages", "Packages.gz", "Packages.xz"}

IndexPaths == {Append(d, f) : d \in IndexDirPaths, f \in IndexNames}

\* Path.parent
Parent(path) == SubSeq(path, 1, Len(path) - 1)

\* Path.__lt__: the parts are compared as tuples of strings.
RECURSIVE PathLess(_, _)
PathLess(p, q) ==
    IF q = <<>> THEN FALSE
    ELSE IF p = <<>> THEN TRUE
    ELSE IF Head(p) # Head(q) THEN SegRank(Head(p)) < SegRank(Head(q))
    ELSE PathLess(Tail(p), Tail(q))

\* sorted(dists.glob("**/Packages*"))
RECURSIVE SortPaths(_)
SortPaths(paths) ==
    IF paths = {} THEN <<>>
    ELSE LET first == CHOOSE p \in paths : \A q \in paths \ {p} : PathLess(p, q)
         IN  <<first>> \o SortPaths(paths \ {first})

\* The loop without its test: every path is kept.
RECURSIVE IndicesLoopUnfiltered(_, _, _)
IndicesLoopUnfiltered(todo, indices, parents) ==
    IF todo = <<>> THEN indices
    ELSE IndicesLoopUnfiltered(Tail(todo), Append(indices, Head(todo)),
                               Append(parents, Parent(Head(todo))))

\* utils.py lines 71-74: a path is kept when its parent was not seen before.
RECURSIVE IndicesLoop(_, _, _)
IndicesLoop(todo, indices, parents) ==
    IF todo = <<>> THEN indices
    ELSE IF \A i \in DOMAIN parents : parents[i] # Parent(Head(todo))
    THEN IndicesLoop(Tail(todo), Append(indices, Head(todo)),
                     Append(parents, Parent(Head(todo))))
    ELSE IndicesLoop(Tail(todo), indices, parents)

\* utils.py _get_package_indices on the set of Packages* paths of a tree.
GetPackageIndicesIn(tree) == IndicesLoop(SortPaths(tree), <<>>, <<>>)

InitIndices ==
    /\ Quiet
    /\ \E tree \in SUBSET IndexPaths :
         fn = [op |-> "_get_package_indices", at |-> "call", tree |-> tree, result |-> <<>>]

GetPackageIndicesCall ==
    /\ fn.op = "_get_package_indices" /\ fn.at = "call"
    /\ fn' = [fn EXCEPT !.at = "returned", !.result = GetPackageIndicesIn(fn.tree)]
    /\ UNCHANGED <<baseLinked, config, fsVars, clock, pc, status, out, cp, stored, cronJob>>

NextIndices == GetPackageIndicesCall

SpecIndices == InitIndices /\ [][NextIndices]_vars

\* ----------------------------------------------- _locate_packages_from_index
\* A line of an index file is a sequence of tokens: the field prefix
\* "Filename: " is one token, " " and "\n" are white space, "/" separates
\* path segments.
FilenamePrefix == <<"Filename: ">>

WhiteSpace == {" ", "\n"}

\* The lines an index file may hold: the plain entry of two packages, an entry
\* with trailing white space, with a second space after the colon, written
\* with a leading "./", written as an absolute path, another field, and a
\* continuation line that holds the prefix after a leading space.
IndexLines ==
    {<<"Filename: ", "pool", "/", "a.deb", "\n">>,
     <<"Filename: ", "pool", "/", "b.deb", "\n">>,
     <<"Filename: ", "pool", "/", "a.deb", " ", "\n">>,
     <<"Filename: ", " ", "pool", "/", "a.deb", "\n">>,
     <<"Filename: ", ".", "/", "pool", "/", "a.deb", "\n">>,
     <<"Filename: ", "/", "pool", "/", "a.deb", "\n">>,
     <<"Package: ", "a", "\n">>,
     <<" ", "Filename: ", "pool", "/", "b.deb", "\n">>}

\* An index file holds at most MaxLines lines.
MaxLines == 3

IndexTexts == UNION {[1..n -> IndexLines] : n \in 0..MaxLines}

\* str.strip(): the white space at both ends is dropped.
RECURSIVE StripLeft(_)
StripLeft(text) ==
    IF text # <<>> /\ Head(text) \in WhiteSpace THEN StripLeft(Tail(text)) ELSE text

RECURSIVE StripRight(_)
StripRight(text) ==
    IF text # <<>> /\ text[Len(text)] \in WhiteSpace
    THEN StripRight(SubSeq(text, 1, Len(text) - 1)) ELSE text

Strip(text) == StripRight(StripLeft(text))

\* Path(archive_root, text): an absolute text replaces the root, a relative
\* one is appended to it; empty segments and "." are dropped.
PathOf(text) ==
    [anchor |-> IF text # <<>> /\ Head(text) = "/" THEN "/" ELSE "archive_root",
     parts |-> Segments(text)]

\* The set comprehension of utils.py lines 120-124.
LocatePackagesFromIndex(lines) ==
    {PathOf(Replace(Strip(lines[i]), FilenamePrefix)) :
        i \in {k \in DOMAIN lines : StartsWith(lines[k], FilenamePrefix)}}

InitReader ==
    /\ Quiet
    /\ \E lines \in IndexTexts :
         fn = [op |-> "_locate_packages_from_index", at |-> "call",
               lines |-> lines, result |-> {}]

LocatePackagesFromIndexCall ==
    /\ fn.op = "_locate_packages_from_index" /\ fn.at = "call"
    /\ fn' = [fn EXCEPT !.at = "returned", !.result = LocatePackagesFromIndex(fn.lines)]
    /\ UNCHANGED <<baseLinked, config, fsVars, clock, pc, status, out, cp, stored, cronJob>>

NextReader == LocatePackagesFromIndexCall

SpecReader == InitReader /\ [][NextReader]_vars

\* ------------------------------------------------------------ convert_bytes
\* A byte count is written in base 1024, most significant digit first and
\* without a leading zero (the empty sequence is 0), so that counts of
\* 1024^5 and more are within reach of 32-bit arithmetic.
Base == 1024

DigitValues == {0, 1, 512, 1023}

\* Byte counts have at most MaxDigits digits: they are below 1024^MaxDigits.
MaxDigits == 6

ByteCounts ==
    {d \in UNION {[1..n -> DigitValues] : n \in 0..MaxDigits} : d = <<>> \/ d[1] # 0}

ByteUnits == <<"bytes", "KB", "MB", "GB", "TB">>

\* The product of a digit sequence and a small factor, plus a carry.
RECURSIVE MulSmall(_, _, _)
MulSmall(digits, factor, carry) ==
    IF digits = <<>> THEN (IF carry = 0 THEN <<>> ELSE <<carry>>)
    ELSE LET x == digits[Len(digits)] * factor + carry
         IN  MulSmall(SubSeq(digits, 1, Len(digits) - 1), factor, x \div Base)
                 \o <<x % Base>>

RECURSIVE IntVal(_)
IntVal(digits) ==
    IF digits = <<>> THEN 0
    ELSE IntVal(SubSeq(digits, 1, Len(digits) - 1)) * Base + digits[Len(digits)]

\* "{:.1f}".format(num) for num = digits / 1024^k, in tenths: ten times the
\* quotient, rounded to the nearest integer, a tie to the even one.
Tenths(digits, k) ==
    LET t == MulSmall(digits, 10, 0)
        whole == IntVal(SubSeq(t, 1, Len(t) - k))
        frac == SubSeq(t, Len(t) - k + 1, Len(t))
        rest == \E i \in 2..Len(frac) : frac[i] # 0
        above == frac # <<>> /\ (frac[1] > Base \div 2 \/ (frac[1] = Base \div 2 /\ rest))
        tie == frac # <<>> /\ frac[1] = Base \div 2 /\ ~rest
    IN  IF above \/ (tie /\ whole % 2 = 1) THEN whole + 1 ELSE whole

\* num < 1024 after k divisions of the byte count by 1024.
Below1024(digits, k) == Len(digits) - k <= 1

\* The function's implicit return after the loop.
NoString == [none |-> TRUE, unit |-> "", tenths |-> 0]

\* utils.py lines 107-110: the loop over the units.
RECURSIVE ConvertLoop(_, _, _)
ConvertLoop(digits, k, units) ==
    IF units = <<>> THEN NoString
    ELSE IF Below1024(digits, k)
    THEN [none |-> FALSE, unit |-> Head(units), tenths |-> Tenths(digits, k)]
    ELSE ConvertLoop(digits, k + 1, Tail(units))

\* utils.py convert_bytes
ConvertBytes(digits) == ConvertLoop(digits, 0, ByteUnits)

InitBytes ==
    /\ Quiet
    /\ \E num \in ByteCounts :
         fn = [op |-> "convert_bytes", at |-> "call", num |-> num, result |-> NoString]

ConvertBytesCall ==
    /\ fn.op = "convert_bytes" /\ fn.at = "call"
    /\ fn' = [fn EXCEPT !.at = "returned", !.result = ConvertBytes(fn.num)]
    /\ UNCHANGED <<baseLinked, config, fsVars, clock, pc, status, out, cp, stored, cronJob>>

NextBytes == ConvertBytesCall

SpecBytes == InitBytes /\ [][NextBytes]_vars

\* ----------------------------------------------------------- config-changed
\* The options the handler is followed on.
Keys == {"cron-schedule", "mirror-list"}

\* cron-schedule: the empty string (the default) and two schedules.
Schedules == {"", "@daily", "@hourly"}

\* One line of the mirror-list text, as tokens; " " is white space.  An empty
\* line, a blank one, and lines of one to four fields.
MirrorLines ==
    {<<>>, <<" ">>, <<"deb">>, <<"deb", " ", "http://h1/ubuntu">>,
     <<"deb", " ", "http://h1/ubuntu", " ", "focal">>,
     <<"deb", " ", "http://h1/ubuntu", " ", "focal", " ", "main">>}

\* A mirror-list text has at most MaxMirrorLines lines.
MaxMirrorLines == 2

\* str.splitlines() of the mirror-list texts.
MirrorTexts == UNION {[1..n -> MirrorLines] : n \in 0..MaxMirrorLines}

\* A Python str and a Python list.
Str(v) == [kind |-> "str", val |-> v]

List(v) == [kind |-> "list", val |-> v]

\* self.model.config: every option is present, mirror-list as one string.
ModelConfigs ==
    {("cron-schedule" :> Str(c)) @@ ("mirror-list" :> Str(t)) : c \in Schedules, t \in MirrorTexts}

\* str.split(): the fields between white space.
Split(line) == SelectSeq(line, LAMBDA t : t # " ")

\* charm.py _validate_mirror_list, lines 361-370: the loop over the lines.
RECURSIVE ValidateLoop(_, _)
ValidateLoop(lines, validated) ==
    IF lines = <<>> THEN [error |-> FALSE, list |-> validated]
    ELSE LET mirror == Head(lines)
         IN  IF mirror = <<>> THEN ValidateLoop(Tail(lines), validated)
             ELSE IF Len(Split(mirror)) < 3 THEN [error |-> TRUE, list |-> <<>>]
             ELSE ValidateLoop(Tail(lines), Append(validated, mirror))

\* charm.py _validate_mirror_list
ValidateMirrorList(mirror_list) == ValidateLoop(mirror_list, <<>>)

\* charm.py _setup_cron_job: the file with the line "<schedule> root apt-mirror".
CronFile(schedule) == [exists |-> TRUE, schedule |-> schedule]

\* charm.py lines 113-118: the keys whose value differs from the stored one.
ChangeSet(cfg) == {k \in Keys : k \notin DOMAIN stored \/ stored[k] # cfg[k]}

\* charm.py _on_config_changed
ConfigChanged(cfg) ==
    /\ pc = Idle
    /\ LET change_set == ChangeSet(cfg)
           set == [k \in Keys |-> IF k \in change_set THEN cfg[k] ELSE stored[k]]
           validated == ValidateMirrorList(set["mirror-list"].val)
       IN  IF validated.error
           THEN /\ stored' = set
                /\ status' = [text |-> "Blocked", name |-> <<>>]
                /\ UNCHANGED cronJob
           ELSE /\ stored' = [set EXCEPT !["mirror-list"] = List(validated.list)]
                /\ cronJob' = IF "cron-schedule" \notin change_set THEN cronJob
                              ELSE IF set["cron-schedule"].val = "" THEN NoFile
                              ELSE CronFile(set["cron-schedule"].val)
                /\ status' = UpdateStatus(publish, mirrorDir)
    /\ UNCHANGED <<baseLinked, config, fsVars, clock, pc, out, cp, fn>>

InitConfig ==
    /\ Quiet
    /\ fn = NoCall

NextConfig == \E cfg \in ModelConfigs : ConfigChanged(cfg)

SpecConfig == InitConfig /\ [][NextConfig]_vars

\* ------------------------------------------------------------------ claims
\* An index file of the live dists of host h holds a Filename entry for p.
NamedByLive(ds, h, p) ==
    ds[h].exists /\ \E f \in DOMAIN ds[h].index : p \in ds[h].index[f]

\* An index file copied into a snapshot, beside a pool link to the live pool
\* of host h, holds a Filename entry for p.
NamedBySnapshots(snaps, h, p) ==
    \E s \in DOMAIN snaps : \E d \in DOMAIN snaps[s] :
        /\ snaps[s][d].dists.exists
        /\ snaps[s][d].pool = PoolLink(h)
        /\ \E f \in DOMAIN snaps[s][d].dists.index : p \in snaps[s][d].dists.index[f]

\* The index file of the live dists of host h that sorts first names p.
NamedByFirstLive(ds, h, p) ==
    /\ ds[h].exists
    /\ IF "Packages" \in DOMAIN ds[h].index THEN p \in ds[h].index["Packages"]
       ELSE "Packages.gz" \in DOMAIN ds[h].index /\ p \in ds[h].index["Packages.gz"]

Candidates == CheckPackages(dists, debs, snapshots)

\* C1: with at least one snapshot, a .deb file under the live mirror that an
\* index copied into an existing snapshot names is never a deletion candidate.
C1_SnapshotPackagesKept ==
    DOMAIN snapshots # {} =>
        \A d \in debs : NamedBySnapshots(snapshots, d[1], d[2]) => LivePath(d[1], d[2]) \notin Candidates

\* C2: a package file that the indices of a snapshot name is not unlinked
\* while that snapshot exists: whatever action runs, a file on disk that a
\* snapshot existing before and after the action names is still on disk.
C2_SnapshotPackagesStay ==
    [][\A d \in debs :
           NamedBySnapshots(snapshots, d[1], d[2]) /\ NamedBySnapshots(snapshots', d[1], d[2])
               => d \in debs']_vars

\* C3, as stated: with zero snapshots, a .deb file under the live mirror is
\* a deletion candidate iff no index file under the live mirror names it.
C3_CandidateIffUnnamed ==
    DOMAIN snapshots = {} =>
        \A d \in debs : LivePath(d[1], d[2]) \in Candidates <=> ~NamedByLive(dists, d[1], d[2])

\* C3, amended: with zero snapshots, a .deb file under the live mirror is a
\* deletion candidate iff the index file that sorts first in its directory
\* (the one the Index Locator selects) does not name it.
C3_CandidateIffUnnamedByFirst ==
    DOMAIN snapshots = {} =>
        \A d \in debs : LivePath(d[1], d[2]) \in Candidates <=> ~NamedByFirstLive(dists, d[1], d[2])

\* No snapshot; one file on disk is a candidate although an index file that
\* was not selected names it, another file is none.
C3_Witness ==
    /\ DOMAIN snapshots = {}
    /\ \E d \in debs : LivePath(d[1], d[2]) \in Candidates /\ NamedByLive(dists, d[1], d[2])
    /\ \E d \in debs : LivePath(d[1], d[2]) \notin Candidates

Terminated == cp.at \in {"returned", "raised"}

\* C4, as stated: clean_packages attempts every path of its input exactly
\* once, whatever happened on the paths before it.
C4_EveryPathAttempted ==
    Terminated => \A p \in DOMAIN cp.attempts : cp.attempts[p] = 1

\* C4, amended: no path is attempted twice; a missing file never ends the
\* loop, so a run that meets only files and missing files returns with every
\* path attempted once; only an unlink error other than FileNotFoundError
\* ends the loop, after the attempt on the path that raised it.
C4_MissingNeverAborts ==
    /\ \A p \in DOMAIN cp.attempts : cp.attempts[p] <= 1
    /\ cp.at = "returned" => \A p \in DOMAIN cp.attempts : cp.attempts[p] = 1
    /\ cp.at = "raised" =>
           \E p \in DOMAIN cp.attempts : cp.kind[p] = "blocked" /\ cp.attempts[p] = 1
    /\ (\A p \in DOMAIN cp.kind : cp.kind[p] # "blocked") => cp.at # "raised"

\* The run returned after three attempts, one of them on a missing file.
C4_Witness ==
    /\ cp.at = "returned"
    /\ Cardinality(DOMAIN cp.attempts) = 3
    /\ \E p \in DOMAIN cp.kind : cp.kind[p] = "missing"
    /\ \A p \in DOMAIN cp.attempts : cp.attempts[p] = 1

\* C5, as stated: clean_packages returns, and its result is True iff every
\* deletion succeeded.
C5_ReturnsWhetherAllDeleted ==
    Terminated =>
        /\ cp.at = "returned"
        /\ cp.result <=> \A p \in DOMAIN cp.kind : cp.kind[p] = "file"

\* C5, amended: when clean_packages returns, its result is True iff every
\* deletion succeeded, False when a file was missing; an unlink error other
\* than FileNotFoundError is raised to the caller and nothing is returned.
C5_ReturnedResult ==
    /\ cp.at = "returned" => (cp.result <=> \A p \in DOMAIN cp.kind : cp.kind[p] = "file")
    /\ cp.at = "raised" => \E p \in DOMAIN cp.kind : cp.kind[p] = "blocked"

\* The run returned False: two files were deleted and one was missing.
C5_Witness ==
    /\ cp.at = "returned"
    /\ ~cp.result
    /\ Cardinality({p \in DOMAIN cp.kind : cp.kind[p] = "file"}) = 2
    /\ Cardinality({p \in DOMAIN cp.kind : cp.kind[p] = "missing"}) = 1

\* The name is empty or its first token is not "snapshot-".
NotASnapshotName(name) == name = <<>> \/ Head(name) # "snapshot-"

NoSuchDirectory(name) ==
    \/ name \in {<<"snapshot-", "9999">>, <<"not-a-snapshot">>}
    \/ name = <<"mirror">> /\ ~mirrorDir
    \/ \E n \in SnapshotNames \ DOMAIN snapshots : name \in {n, n \o <<"/">>}

\* C7: publish-snapshot for a name whose directory does not exist fails with
\* "Snapshot does not exist" and leaves the publish link as it was.
C7_MissingSnapshotNotPublished ==
    [][\A name \in Names :
           NoSuchDirectory(name) /\ PublishStart(name) =>
               /\ out' = Report("publish-snapshot", "failed", "Snapshot does not exist")
               /\ publish' = publish
               /\ pc' = Idle]_vars

\* publish-snapshot has just failed while the publish link exists.
C7_Witness ==
    /\ out = Report("publish-snapshot", "failed", "Snapshot does not exist")
    /\ publish.linked

\* C8: between actions the publish link does not exist or points at an
\* existing snapshot directory, a direct child of base-path named snapshot-*;
\* stated for a link whose text names a snapshot: that directory exists.
C8_PublishPointsAtSnapshot ==
    pc = Idle /\ publish.linked /\ publish.target \in SnapshotNames =>
        publish.target \in DOMAIN snapshots

\* C9: while publish-snapshot moves the link from snapshot A to snapshot B,
\* no step leaves base-path without the link: a reader finds A or B.
C9_PublishNeverMissing ==
    [][/\ publish.linked /\ publish.target \in DOMAIN snapshots
       /\ pc'.at = "link" /\ pc'.name \in DOMAIN snapshots /\ pc'.name # publish.target
       => publish'.linked]_vars

\* publish-snapshot has set the link to <base>/<name>, the query returns
\* name and the status shows it.
Published(name) ==
    /\ publish'.linked /\ publish'.target = name
    /\ GetPublishedSnapshot(publish') = [none |-> FALSE, name |-> name]
    /\ status' = [text |-> "Publishes", name |-> name]

\* C10: after publish-snapshot succeeds for a name it accepted, the link
\* targets <base>/<name>, _get_published_snapshot returns name and the status
\* shows it; stated for the accepted names that start with "snapshot-".
C10_PublishRoundTrip ==
    [][PublishLink /\ StartsWithSnapshot(pc.name) => Published(pc.name)]_vars

\* A step of synchronize, check-packages or clean-up-packages: each handler
\* leaves its own report on the event, and only the clock's step leaves none.
MirrorStep ==
    /\ clock' = clock
    /\ out'.op \in {"synchronize", "check-packages", "clean-up-packages"}

\* C11: no synchronize (with or without a source, its clean_dists included),
\* check-packages or clean-up-packages changes a snapshot: every snapshot
\* directory keeps its copied dists, and the set of package paths its indices
\* name stays the same.
C11_SnapshotsImmutable ==
    [][MirrorStep =>
           /\ snapshots' = snapshots
           /\ \A n \in DOMAIN snapshots :
                  SnapshotIndexed(n, snapshots'[n]) = SnapshotIndexed(n, snapshots[n])]_vars

\* A synchronize has run clean_dists and failed: the live mirror has no dists
\* left, a snapshot still has its copy.
C11_Witness ==
    /\ out = Report("synchronize", "failed", "CalledProcessError")
    /\ \A h \in Hosts : pool[h] /\ ~dists[h].exists
    /\ \E n \in DOMAIN snapshots : \E d \in DOMAIN snapshots[n] :
           snapshots[n][d].dists.exists /\ snapshots[n][d].pool.link

\* The entry of the snapshot directory name at the destination of host h.
SnapshotEntry(snaps, name, h) ==
    EntryAt(snaps[name], BuildSubtree(config.mirrors, h))

\* C12: when create-snapshot finishes, every live directory holding both pool
\* and dists has at its destination a symlink to the live pool and a copy of
\* the live dists; a directory holding only one of the two gets only that one.
C12_PoolLinkedDistsCopied ==
    [][CreateSnapshot /\ out'.status = "results" =>
           \A h \in Hosts :
               LET e == SnapshotEntry(snapshots', SnapshotName(clock), h)
               IN  /\ e.pool = IF pool[h] THEN PoolLink(h) ELSE NoPool
                   /\ e.dists = IF dists[h].exists THEN dists[h] ELSE NoDists]_vars

\* A finished snapshot of an archive directory with both pool and dists.
C12_Witness ==
    /\ out = Report("create-snapshot", "results", "")
    /\ \E h \in Hosts : \E n \in DOMAIN snapshots :
           /\ pool[h] /\ dists[h].exists
           /\ SnapshotEntry(snapshots, n, h).pool = PoolLink(h)
           /\ SnapshotEntry(snapshots, n, h).dists = dists[h]

Returned(op) == fn.op = op /\ fn.at = "returned"

\* C13: with strip-mirror-name enabled and host H among the mirror hostnames,
\* the live directory mirror/H/P maps to the destination P; with the option
\* disabled it maps to H/P (strip-mirror-path not in effect).
C13_HostSegmentStripped ==
    Returned("_build_subtree") /\ ~NonEmpty(fn.stripPath) =>
        /\ Enabled(fn.stripName) /\ (\E i \in DOMAIN fn.mirrors : fn.mirrors[i] = fn.host)
               => fn.result = fn.sub
        /\ ~Enabled(fn.stripName) => fn.result = fn.host \o <<"/">> \o fn.sub

\* The positions of text where an occurrence of old begins.
Occurrences(text, old) ==
    {i \in 1..Len(text) : StartsWith(SubSeq(text, i, Len(text)), old)}

\* The positions of text that no occurrence of old covers.
Kept(text, old) ==
    {i \in 1..Len(text) :
        \A o \in Occurrences(text, old) : i < o \/ i >= o + Len(old)}

\* text without the positions its occurrences of old cover.
WithoutOccurrences(text, old) ==
    [j \in 1..Cardinality(Kept(text, old)) |->
        text[CHOOSE i \in Kept(text, old) :
                 Cardinality({k \in Kept(text, old) : k <= i}) = j]]

\* The relative path after the strip-mirror-name step.
HostStripped ==
    BuildSubtreeText(fn.mirrors, fn.host \o <<"/">> \o fn.sub, fn.stripName, Unset)

\* C14: with strip-mirror-path set to a non-empty string S, the destination
\* subtree is the (possibly host-stripped) relative path with every occurrence
\* of S removed; with the option unset or empty the path is left as it is.
C14_StripPathRemoved ==
    Returned("_build_subtree") =>
        /\ NonEmpty(fn.stripPath) =>
               fn.result = WithoutOccurrences(HostStripped, fn.stripPath.value)
        /\ ~NonEmpty(fn.stripPath) => fn.result = HostStripped

\* The option removed two occurrences from a path that was not host-stripped.
C14_Witness ==
    /\ Returned("_build_subtree")
    /\ NonEmpty(fn.stripPath)
    /\ Cardinality(Occurrences(HostStripped, fn.stripPath.value)) = 2
    /\ fn.result = fn.host

\* C15: _get_package_indices returns exactly one index file for each
\* directory of the tree that holds a Packages* file, the first of that
\* directory in sorted order, and never two files of one directory.
C15_OneIndexPerDirectory ==
    Returned("_get_package_indices") =>
        /\ \A i \in DOMAIN fn.result : fn.result[i] \in fn.tree
        /\ \A i, j \in DOMAIN fn.result :
               Parent(fn.result[i]) = Parent(fn.result[j]) => i = j
        /\ \A p \in fn.tree : \E i \in DOMAIN fn.result :
               /\ Parent(fn.result[i]) = Parent(p)
               /\ \A q \in fn.tree :
                      Parent(q) = Parent(p) =>
                          SegRank(fn.result[i][Len(fn.result[i])]) <= SegRank(q[Len(q)])

\* Three directories, one nested in another, two of them with two index
\* files and none with the plain Packages: one file of each is returned.
C15_Witness ==
    /\ Returned("_get_package_indices")
    /\ Cardinality(fn.tree) = 5
    /\ fn.result = <<<<"main", "Packages.gz">>, <<"main", "universe", "Packages.xz">>,
                     <<"universe", "Packages.gz">>>>

\* The filenames of an index file: for each line that begins with the
\* prefix, the text after the prefix, trimmed.
Filenames(lines) ==
    {Strip(SubSeq(lines[i], Len(FilenamePrefix) + 1, Len(lines[i]))) :
        i \in {k \in DOMAIN lines : StartsWith(lines[k], FilenamePrefix)}}

\* C16: the set _locate_packages_from_index returns holds, for each filename
\* of the index file, the trimmed text after the prefix joined onto the
\* archive root, and nothing else.
C16_DistinctFilenamesJoined ==
    Returned("_locate_packages_from_index") =>
        fn.result = {PathOf(f) : f \in Filenames(fn.lines)}

\* The position in ByteUnits of the smallest unit whose quotient is below 1024.
SmallestUnit(digits) == IF Len(digits) = 0 THEN 1 ELSE Len(digits)

\* C17: for every byte count n >= 0 convert_bytes returns a string, and its
\* unit is the smallest of bytes, KB, MB, GB, TB for which n divided by the
\* matching power of 1024 is below 1024; 1048576 gives "1.0 MB".
C17_ConvertBytesReturnsUnit ==
    Returned("convert_bytes") =>
        /\ ~fn.result.none
        /\ SmallestUnit(fn.num) <= Len(ByteUnits)
        /\ fn.result.unit = ByteUnits[SmallestUnit(fn.num)]
        /\ fn.num = <<1, 0, 0>> => fn.result.tenths = 10

\* C18: every run of check-packages, clean-up-packages, synchronize,
\* create-snapshot and delete-snapshot ends, in every filesystem state, with
\* results or a failure on the action event, never with an exception that
\* leaves the handler: not when the named snapshot directory or the live
\* mirror directory is missing either.
C18_HandlersAlwaysReport ==
    out.op \in {"check-packages", "clean-up-packages", "synchronize",
                "create-snapshot", "delete-snapshot"}
        => out.status \in {"results", "failed"}

\* A handler has run the calculator: check-packages, clean-up-packages once
\* confirmed, or synchronize once the mirroring tool has succeeded.
CalculatorRan ==
    /\ clock' = clock
    /\ out'.op \in {"synchronize", "check-packages", "clean-up-packages"}
    /\ out'.status # "failed"
    /\ out'.msg # "Aborted!"

\* The index file the calculator selects in a dists directory is unreadable.
SelectedUnreadable(index) ==
    \A f \in DOMAIN index : (\A g \in DOMAIN index : Rank(f) <= Rank(g)) =>
        Undecodable \in index[f]

AnySelectedUnreadable(ds, snaps) ==
    \/ \E h \in Hosts : ds[h].exists /\ SelectedUnreadable(ds[h].index)
    \/ \E n \in DOMAIN snaps : \E d \in DOMAIN snaps[n] :
           snaps[n][d].dists.exists /\ SelectedUnreadable(snaps[n][d].dists.index)

\* C19: when a selected index file of the live mirror or of a snapshot cannot
\* be opened or decoded, the check-packages, clean-up-packages or synchronize
\* run that reads it ends with that error raised to its caller, reports no
\* results, and deletes no package file.
C19_UnreadableIndexSurfaced ==
    [][CalculatorRan /\ AnySelectedUnreadable(dists', snapshots') =>
           /\ out'.status = "raised"
           /\ out'.msg = "unreadable index"
           /\ debs \subseteq debs']_vars

\* A confirmed clean-up-packages has met an unreadable snapshot index, and the
\* package that no readable index names is still on disk.
C19_Witness ==
    /\ out = Report("clean-up-packages", "raised", "unreadable index")
    /\ \E n \in DOMAIN snapshots : \E d \in DOMAIN snapshots[n] :
           SelectedUnreadable(snapshots[n][d].dists.index)
    /\ \E h \in Hosts :
           /\ ~SelectedUnreadable(dists[h].index)
           /\ \E p \in Pkgs : <<h, p>> \in debs /\ \A f \in DOMAIN dists[h].index : p \notin dists[h].index[f]

\* A synchronize has just ended with results on its event.
SynchronizeSucceeded ==
    /\ clock' = clock
    /\ out'.op = "synchronize"
    /\ out'.status = "results"

\* Some index file of the live mirror or of a snapshot names the package file
\* mirror/<h>/ubuntu/pool/<p>.deb: an index of the live directory of h, or
\* one of a snapshot directory whose pool is the link to the pool of h.
NamedByAnIndex(h, p, ds, snaps) ==
    \/ ds[h].exists /\ \E f \in DOMAIN ds[h].index : p \in ds[h].index[f]
    \/ \E n \in DOMAIN snaps : \E d \in DOMAIN snaps[n] :
           /\ snaps[n][d].pool = PoolLink(h)
           /\ snaps[n][d].dists.exists
           /\ \E f \in DOMAIN snaps[n][d].dists.index : p \in snaps[n][d].dists.index[f]

\* C20: a synchronize that succeeds leaves no .deb file under the live mirror
\* that no index of the live mirror or of a snapshot names, and a
\* check-packages that runs right after it reports the count 0.
C20_SynchronizeLeavesNothingToClean ==
    [][/\ SynchronizeSucceeded =>
              \A d \in debs' : NamedByAnIndex(d[1], d[2], dists', snapshots')
       /\ (/\ out.op = "synchronize" /\ out.status = "results"
           /\ clock' = clock /\ out'.op = "check-packages")
              => out' = Report("check-packages", "results", "0")]_vars

\* A synchronize has succeeded after removing a package, while a snapshot
\* exists and a package file is still on disk.
C20_Witness ==
    /\ out.op = "synchronize" /\ out.status = "results" /\ out.msg # "0"
    /\ debs # {}
    /\ snapshots # <<>>

\* A confirmed clean-up-packages has just completed without errors.
CleanUpCompleted ==
    /\ clock' = clock
    /\ out'.op = "clean-up-packages"
    /\ out'.status = "results"
    /\ \E n \in 0..Cardinality(Hosts \X Pkgs) : out'.msg = CleanUpMessage(TRUE, 1..n)

\* The state after such a run, with nothing done since.
AfterCleanUp ==
    /\ out.op = "clean-up-packages"
    /\ out.status = "results"
    /\ \E n \in 0..Cardinality(Hosts \X Pkgs) : out.msg = CleanUpMessage(TRUE, 1..n)

\* C21: a confirmed clean-up-packages that completes without errors removes
\* exactly the packages check-packages would have reported just before it,
\* and a check-packages that runs right after it reports the count 0.
C21_CleanUpRemovesTheCandidates ==
    [][/\ CleanUpCompleted =>
              /\ ExistingPackages(debs) \ ExistingPackages(debs')
                     = CheckPackages(dists, debs, snapshots)
              /\ debs' \subseteq debs
              /\ CheckPackages(dists', debs', snapshots') = {}
       /\ (AfterCleanUp /\ clock' = clock /\ out'.op = "check-packages")
              => out' = Report("check-packages", "results", "0")]_vars

\* A confirmed clean-up-packages has removed two packages without errors.
C21_Witness ==
    /\ out = Report("clean-up-packages", "results", CleanUpMessage(TRUE, 1..2))
    /\ mirrorDir

\* C22: clean-up-packages with confirm=false reports the "Aborted!" message
\* and nothing else, whatever the candidate set would be and even when the
\* calculator would raise; no file is deleted and the filesystem is unchanged.
C22_UnconfirmedCleanUpDoesNothing ==
    [][CleanUpPackages(FALSE) =>
           /\ out' = Report("clean-up-packages", "results", "Aborted!")
           /\ UNCHANGED <<fsVars, status>>]_vars

\* An unconfirmed clean-up-packages has run while a package file is a
\* deletion candidate; the file is still there.
C22_Witness ==
    /\ out = Report("clean-up-packages", "results", "Aborted!")
    /\ CalculatorError(mirrorDir, dists, snapshots) = ""
    /\ CheckPackages(dists, debs, snapshots) # {}

\* The mirrors of the configuration that a source filter matches; the empty
\* filter matches every mirror.
Matching(source) ==
    IF source = "" THEN config.mirrors ELSE {h \in config.mirrors : h = source}

\* The mirroring tool has written nothing for the archive h.
NotMirrored(h) ==
    /\ pool'[h] = pool[h]
    /\ {d \in debs' : d[1] = h} \subseteq debs
    /\ dists'[h] \in {dists[h], NoDists}

\* C23: a synchronize that gets to the mirroring tool removes the dists
\* directories of the live mirror first if and only if no source filter was
\* given; with a filter the existing dists stay in place and the tool is run
\* on the matching mirrors only.  The tool's own index files are written
\* after the removal and are there when it has succeeded.
C23_CleanDistsIffNoSource ==
    [][\A source \in Sources :
           Synchronize(source) /\ GetMirrors(source) # {} =>
               /\ source = NoSource =>
                      /\ out'.status = "failed" => \A h \in DOMAIN dists : dists'[h] = NoDists
                      /\ \A h \in DOMAIN dists \ config.mirrors : dists'[h] = NoDists
               /\ source # NoSource =>
                      /\ out'.status = "failed" => dists' = dists
                      /\ \A h \in DOMAIN dists \ Matching(source) :
                             dists'[h] = dists[h] /\ NotMirrored(h)
               /\ out'.status # "failed" =>
                      \A h \in DOMAIN dists :
                          (source = NoSource /\ h \in config.mirrors) \/ (source # NoSource /\ h \in Matching(source))
                              => dists'[h].exists /\ "Packages.gz" \in DOMAIN dists'[h].index]_vars

\* Both archives are configured; a synchronize with the filter h1 has
\* succeeded, and the index of h2 is still the one of the earlier run.
C23_Witness ==
    /\ out.op = "synchronize" /\ out.status = "results"
    /\ config.mirrors = TwoHosts
    /\ "h1" \in DOMAIN dists /\ "Packages.gz" \in DOMAIN dists["h1"].index
    /\ dists["h2"] = Stale

\* charm.py _list_snapshots: the entries of base-path that match snapshot-*.
ListSnapshots(snaps) == {n \in DOMAIN snaps : StartsWithSnapshot(n)}

\* C24: every create-snapshot that completes adds exactly one new directory,
\* named snapshot-<timestamp>, to what list-snapshots returns, and leaves
\* every snapshot that existed before as it was.
C24_CreateAddsOneSnapshot ==
    [][clock' = clock /\ out'.op = "create-snapshot" /\ out'.status = "results" =>
           /\ \E n \in SnapshotNames :
                  /\ n \notin ListSnapshots(snapshots)
                  /\ ListSnapshots(snapshots') = ListSnapshots(snapshots) \cup {n}
           /\ \A m \in ListSnapshots(snapshots) : snapshots'[m] = snapshots[m]]_vars

\* C25: after any sequence of config-changed events the cron job file exists
\* with the line of the schedule if and only if the cron-schedule configured
\* last is a non-empty string; an empty cron-schedule leaves no file.
C25_CronJobFollowsSchedule ==
    "cron-schedule" \in DOMAIN stored =>
        cronJob = IF stored["cron-schedule"].val = "" THEN NoFile
                  ELSE CronFile(stored["cron-schedule"].val)

CopiedFrom(d) == {h \in DOMAIN pool : BuildSubtree(config.mirrors, h) = d}

\* C26: for every dists directory of a snapshot built by create-snapshot, the
\* archive root derived through the pool symlink beside it is the archive
\* root of the live directory it was copied from, spelled like the paths of
\* the live *.deb scan, so that the entries of the snapshot index are equal
\* to the paths of the package files on disk.
C26_SnapshotRootIsLiveRoot ==
    \A n \in DOMAIN snapshots : \A d \in DOMAIN snapshots[n] :
        snapshots[n][d].dists.exists =>
            \E h \in CopiedFrom(d) :
                LET root == GetArchiveRoot(snapshots[n][d].pool, SnapRoot(n, d))
                IN  /\ root = GetArchiveRoot(NoPool, LiveRoot(h))
                    /\ \A p \in Pkgs : [root |-> root, file |-> p] = LivePath(h, p)

\* C27: a synchronize that fails leaves the dists index files of the live
\* mirror and every package file as they were, so that the candidate set of
\* a following check-packages or clean-up-packages is the one from before
\* the failed run.
C27_FailedSynchronizeChangesNothing ==
    [][clock' = clock /\ out'.op = "synchronize" /\ out'.status = "failed" =>
           /\ dists' = dists
           /\ debs' = debs
           /\ CheckPackages(dists', debs', snapshots') = CheckPackages(dists, debs, snapshots)]_vars

\* C28: for every mirror tree, hostname list, strip-mirror-name and
\* strip-mirror-path setting, the destination subtree _build_subtree returns
\* has no ".." step, so that <snapshot>/<subtree> lies within the snapshot
\* directory.
C28_SubtreeStaysInSnapshot ==
    Returned("_build_subtree") => \A i \in DOMAIN fn.result : fn.result[i] # ".."

\* The live archive directories: those that hold a pool or a dists.
LiveArchives == {h \in DOMAIN pool : pool[h] \/ dists[h].exists}

\* C29: in a create-snapshot run that starts a new snapshot directory, no two
\* live directories have the same destination subtree, whatever the strip
\* settings; the run meets no destination it made itself, completes, and the
\* snapshot holds the pool link and the dists copy of every live archive.
C29_DestinationsDistinct ==
    [][CreateSnapshot /\ SnapshotName(clock) \notin DOMAIN snapshots =>
           /\ \A a, b \in LiveArchives :
                  a # b => BuildSubtree(config.mirrors, a) # BuildSubtree(config.mirrors, b)
           /\ out'.status = "results"
           /\ \A h \in LiveArchives :
                  LET e == EntryAt(snapshots'[SnapshotName(clock)], BuildSubtree(config.mirrors, h))
                  IN  /\ pool[h] => e.pool = PoolLink(h)
                      /\ dists[h].exists => e.dists = dists[h]]_vars

====
